---- MODULE Spec2Model ----
(***************************************************************************)
(* ChainChess: the match state machine of apps/chainchess/src/contract.rs. *)
(* State is the contract's persistent view (next_game_id, active_games,    *)
(* leaderboard) plus the response of the last executed operation.  The     *)
(* board rules the contract obtains from the `chess` crate (Board,         *)
(* MoveGen, make_move_new, status) are modelled in full: piece movement,   *)
(* check, pins, castling, en passant and promotion.                        *)
(***************************************************************************)
EXTENDS Integers, Sequences, FiniteSets, TLC

VARIABLES next_game_id, active_games, leaderboard, now, response

vars == <<next_game_id, active_games, leaderboard, now, response>>

---------------------------------------------------------------------------
(* Squares are numbered rank * 8 + file, a1 = 0 .. h8 = 63, as            *)
(* chess::Square::to_index does.                                           *)

Squares == 0 .. 63

FileOf(sq) == sq % 8

RankOf(sq) == sq \div 8

SquareAt(file, rank) == rank * 8 + file

OnBoard(file, rank) == file >= 0 /\ file <= 7 /\ rank >= 0 /\ rank <= 7

FileChars == <<"a", "b", "c", "d", "e", "f", "g", "h">>

RankChars == <<"1", "2", "3", "4", "5", "6", "7", "8">>

(* Pieces are written as in a FEN placement field: upper case for white,  *)
(* lower case for black, "." for an empty square.                          *)
WhitePieces == {"P", "N", "B", "R", "Q", "K"}

BlackPieces == {"p", "n", "b", "r", "q", "k"}

Empty == "."

PieceKind == [p \in WhitePieces \cup BlackPieces |->
                CASE p \in {"P", "p"} -> "Pawn"
                  [] p \in {"N", "n"} -> "Knight"
                  [] p \in {"B", "b"} -> "Bishop"
                  [] p \in {"R", "r"} -> "Rook"
                  [] p \in {"Q", "q"} -> "Queen"
                  [] OTHER -> "King"]

PiecesOf(color) == IF color = "w" THEN WhitePieces ELSE BlackPieces

OtherColor(color) == IF color = "w" THEN "b" ELSE "w"

MakePiece(kind, color) ==
    LET up == CASE kind = "Pawn" -> "P" [] kind = "Knight" -> "N"
                [] kind = "Bishop" -> "B" [] kind = "Rook" -> "R"
                [] kind = "Queen" -> "Q" [] OTHER -> "K"
        lo == CASE kind = "Pawn" -> "p" [] kind = "Knight" -> "n"
                [] kind = "Bishop" -> "b" [] kind = "Rook" -> "r"
                [] kind = "Queen" -> "q" [] OTHER -> "k"
    IN IF color = "w" THEN up ELSE lo

NoSquare == 0 - 1

NoPromotion == "none"

(* The eight ray directions: 1..4 are the rook's, 5..8 the bishop's.       *)
DirFile == <<1, 0 - 1, 0, 0, 1, 1, 0 - 1, 0 - 1>>

DirRank == <<0, 0, 1, 0 - 1, 1, 0 - 1, 1, 0 - 1>>

RECURSIVE RayFrom(_, _, _, _)
RayFrom(file, rank, df, dr) ==
    IF OnBoard(file + df, rank + dr)
    THEN <<SquareAt(file + df, rank + dr)>> \o RayFrom(file + df, rank + dr, df, dr)
    ELSE <<>>

Rays == [sq \in Squares |-> [d \in 1 .. 8 |->
            RayFrom(FileOf(sq), RankOf(sq), DirFile[d], DirRank[d])]]

KnightTargets == [sq \in Squares |->
    {SquareAt(FileOf(sq) + j[1], RankOf(sq) + j[2]) :
        j \in {k \in {<<1, 2>>, <<2, 1>>, <<2, 0 - 1>>, <<1, 0 - 2>>,
                      <<0 - 1, 0 - 2>>, <<0 - 2, 0 - 1>>, <<0 - 2, 1>>, <<0 - 1, 2>>} :
                  OnBoard(FileOf(sq) + k[1], RankOf(sq) + k[2])}}]

KingTargets == [sq \in Squares |->
    {SquareAt(FileOf(sq) + DirFile[d], RankOf(sq) + DirRank[d]) :
        d \in {e \in 1 .. 8 : OnBoard(FileOf(sq) + DirFile[e], RankOf(sq) + DirRank[e])}}]

(* Squares from which a pawn of `color` attacks sq.                        *)
PawnAttackers == [color \in {"w", "b"} |-> [sq \in Squares |->
    LET r == IF color = "w" THEN RankOf(sq) - 1 ELSE RankOf(sq) + 1
    IN {SquareAt(f, r) : f \in {g \in {FileOf(sq) - 1, FileOf(sq) + 1} : OnBoard(g, r)}}]]

(* The first occupied square along a ray, or NoSquare.                     *)
FirstHit(board, ray) ==
    IF \E i \in 1 .. Len(ray) : board[ray[i]] # Empty
    THEN ray[CHOOSE i \in 1 .. Len(ray) :
                /\ board[ray[i]] # Empty
                /\ \A j \in 1 .. i - 1 : board[ray[j]] = Empty]
    ELSE NoSquare

(* Whether a piece of `color` attacks sq on `board`.                       *)
IsAttacked(board, sq, color) ==
    \/ \E s \in KnightTargets[sq] : board[s] = MakePiece("Knight", color)
    \/ \E s \in KingTargets[sq] : board[s] = MakePiece("King", color)
    \/ \E s \in PawnAttackers[color][sq] : board[s] = MakePiece("Pawn", color)
    \/ \E d \in 1 .. 8 :
          LET h == FirstHit(board, Rays[sq][d])
          IN /\ h # NoSquare
             /\ board[h] \in {MakePiece("Queen", color),
                              MakePiece(IF d <= 4 THEN "Rook" ELSE "Bishop", color)}

KingSquare(board, color) == CHOOSE s \in Squares : board[s] = MakePiece("King", color)

InCheck(board, color) == IsAttacked(board, KingSquare(board, color), OtherColor(color))

---------------------------------------------------------------------------
(* chess::Board: piece placement, side to move, castling rights and the    *)
(* en-passant target.  A move is chess::ChessMove: source, destination and *)
(* an optional promotion piece.                                            *)

Move(from, to, promo) == [from |-> from, to |-> to, promo |-> promo]

PromotionKinds == <<"Queen", "Knight", "Rook", "Bishop">>

(* Destinations of a sliding piece along one ray: up to and including the  *)
(* first enemy piece, stopping before an own piece.                        *)
SlideTargets(board, ray, own) ==
    {ray[i] : i \in {k \in 1 .. Len(ray) :
                        /\ board[ray[k]] \notin own
                        /\ \A j \in 1 .. k - 1 : board[ray[j]] = Empty}}

PawnMoves(pos, s) ==
    LET white == pos.stm = "w"
        step == IF white THEN 8 ELSE 0 - 8
        startRank == IF white THEN 1 ELSE 6
        lastRank == IF white THEN 7 ELSE 0
        enemy == PiecesOf(OtherColor(pos.stm))
        one == s + step
        pushes == IF one \in Squares /\ pos.board[one] = Empty
                  THEN {one} \cup
                       (IF RankOf(s) = startRank /\ pos.board[one + step] = Empty
                        THEN {one + step} ELSE {})
                  ELSE {}
        takes == {t \in {SquareAt(f, RankOf(s) + (IF white THEN 1 ELSE 0 - 1)) :
                            f \in {g \in {FileOf(s) - 1, FileOf(s) + 1} :
                                      OnBoard(g, RankOf(s) + (IF white THEN 1 ELSE 0 - 1))}} :
                     pos.board[t] \in enemy \/ t = pos.ep}
    IN UNION {IF RankOf(t) = lastRank
              THEN {Move(s, t, PromotionKinds[i]) : i \in 1 .. 4}
              ELSE {Move(s, t, NoPromotion)} : t \in pushes \cup takes}

(* Castling is a king move of two files; the rights are the FEN letters.   *)
CastleMoves(pos, s) ==
    LET white == pos.stm = "w"
        home == IF white THEN 4 ELSE 60
        them == OtherColor(pos.stm)
        rook == MakePiece("Rook", pos.stm)
        short == /\ (IF white THEN "K" ELSE "k") \in pos.castle
                 /\ pos.board[home + 3] = rook
                 /\ pos.board[home + 1] = Empty /\ pos.board[home + 2] = Empty
                 /\ ~IsAttacked(pos.board, home, them)
                 /\ ~IsAttacked(pos.board, home + 1, them)
                 /\ ~IsAttacked(pos.board, home + 2, them)
        long == /\ (IF white THEN "Q" ELSE "q") \in pos.castle
                /\ pos.board[home - 4] = rook
                /\ pos.board[home - 1] = Empty /\ pos.board[home - 2] = Empty
                /\ pos.board[home - 3] = Empty
                /\ ~IsAttacked(pos.board, home, them)
                /\ ~IsAttacked(pos.board, home - 1, them)
                /\ ~IsAttacked(pos.board, home - 2, them)
    IN IF s # home THEN {}
       ELSE (IF short THEN {Move(s, home + 2, NoPromotion)} ELSE {})
            \cup (IF long THEN {Move(s, home - 2, NoPromotion)} ELSE {})

PieceMoves(pos, s) ==
    LET own == PiecesOf(pos.stm)
        kind == PieceKind[pos.board[s]]
        slide(dirs) == UNION {SlideTargets(pos.board, Rays[s][d], own) : d \in dirs}
    IN CASE kind = "Pawn" -> PawnMoves(pos, s)
         [] kind = "Knight" ->
              {Move(s, t, NoPromotion) : t \in {u \in KnightTargets[s] : pos.board[u] \notin own}}
         [] kind = "Bishop" -> {Move(s, t, NoPromotion) : t \in slide(5 .. 8)}
         [] kind = "Rook" -> {Move(s, t, NoPromotion) : t \in slide(1 .. 4)}
         [] kind = "Queen" -> {Move(s, t, NoPromotion) : t \in slide(1 .. 8)}
         [] OTHER ->
              {Move(s, t, NoPromotion) : t \in {u \in KingTargets[s] : pos.board[u] \notin own}}
              \cup CastleMoves(pos, s)

IsEnPassant(pos, m) ==
    /\ PieceKind[pos.board[m.from]] = "Pawn"
    /\ m.to = pos.ep
    /\ FileOf(m.from) # FileOf(m.to)

IsCastle(pos, m) ==
    /\ PieceKind[pos.board[m.from]] = "King"
    /\ (m.to - m.from = 2 \/ m.from - m.to = 2)

(* The rights a move touching square sq removes (CastleRights::            *)
(* square_to_castle_rights): the king's home loses both, a rook's home one.*)
RightsLostAt(sq) ==
    CASE sq = 4 -> {"K", "Q"} [] sq = 7 -> {"K"} [] sq = 0 -> {"Q"}
      [] sq = 60 -> {"k", "q"} [] sq = 63 -> {"k"} [] sq = 56 -> {"q"}
      [] OTHER -> {}

(* Board::make_move_new.  The en-passant target is kept only when an enemy *)
(* pawn stands beside the pawn that made the double step.                  *)
make_move_new(pos, m) ==
    LET piece == pos.board[m.from]
        us == pos.stm
        them == OtherColor(us)
        placed == IF m.promo = NoPromotion THEN piece ELSE MakePiece(m.promo, us)
        epVictim == IF us = "w" THEN m.to - 8 ELSE m.to + 8
        castle == IsCastle(pos, m)
        rookFrom == IF m.to > m.from THEN m.from + 3 ELSE m.from - 4
        rookTo == IF m.to > m.from THEN m.from + 1 ELSE m.from - 1
        b1 == [pos.board EXCEPT ![m.from] = Empty, ![m.to] = placed]
        b2 == IF IsEnPassant(pos, m) THEN [b1 EXCEPT ![epVictim] = Empty] ELSE b1
        b3 == IF castle
              THEN [b2 EXCEPT ![rookFrom] = Empty, ![rookTo] = MakePiece("Rook", us)]
              ELSE b2
        double == /\ PieceKind[piece] = "Pawn"
                  /\ (m.to - m.from = 16 \/ m.from - m.to = 16)
        beside == {SquareAt(f, RankOf(m.to)) :
                      f \in {g \in {FileOf(m.to) - 1, FileOf(m.to) + 1} : g >= 0 /\ g <= 7}}
        ep == IF double /\ \E s \in beside : b3[s] = MakePiece("Pawn", them)
              THEN (m.from + m.to) \div 2
              ELSE NoSquare
    IN [board |-> b3,
        stm |-> them,
        castle |-> (pos.castle \ RightsLostAt(m.from)) \ RightsLostAt(m.to),
        ep |-> ep]

(* A pseudo-legal move is legal when it does not leave the mover's king    *)
(* attacked.                                                               *)
KingSafeAfter(pos, m) == ~InCheck(make_move_new(pos, m).board, pos.stm)

PseudoLegal(pos) ==
    UNION {PieceMoves(pos, s) : s \in {t \in Squares : pos.board[t] \in PiecesOf(pos.stm)}}

LegalMoveSet(pos) == {m \in PseudoLegal(pos) : KingSafeAfter(pos, m)}

(* MoveGen::new_legal yields the moves piece kind by piece kind (pawns,    *)
(* en-passant captures, knights, bishops, rooks, queens, king), each kind  *)
(* by ascending source square, then ascending destination, a promotion     *)
(* in the order queen, knight, rook, bishop.                               *)
EnumKey(pos, m) ==
    LET kind == PieceKind[pos.board[m.from]]
        phase == CASE kind = "Pawn" -> (IF IsEnPassant(pos, m) THEN 1 ELSE 0)
                   [] kind = "Knight" -> 2 [] kind = "Bishop" -> 3
                   [] kind = "Rook" -> 4 [] kind = "Queen" -> 5 [] OTHER -> 6
        promo == IF m.promo = NoPromotion THEN 0
                 ELSE CHOOSE i \in 1 .. 4 : PromotionKinds[i] = m.promo
    IN ((phase * 64 + m.from) * 64 + m.to) * 8 + promo

MoveOfKey(key) ==
    Move((key \div 512) % 64, (key \div 8) % 64,
         IF key % 8 = 0 THEN NoPromotion ELSE PromotionKinds[key % 8])

RECURSIVE Ascending(_)
Ascending(keys) ==
    IF keys = {} THEN <<>>
    ELSE LET least == CHOOSE k \in keys : \A j \in keys : k <= j
         IN <<MoveOfKey(least)>> \o Ascending(keys \ {least})

new_legal(pos) == Ascending({EnumKey(pos, m) : m \in LegalMoveSet(pos)})

(* Board::status: no legal move is checkmate when in check, else stalemate.*)
status(pos) ==
    IF \E m \in PseudoLegal(pos) : KingSafeAfter(pos, m) THEN "Ongoing"
    ELSE IF InCheck(pos.board, pos.stm) THEN "Checkmate"
    ELSE "Stalemate"


---------------------------------------------------------------------------
(* The serialized position (board_fen).  A FEN string is kept as its six   *)
(* fields; Board::from_str reads the first four and Board's Display writes *)
(* them back with the two move counters fixed at "0 1".                    *)

PlacementRows(rows) == [sq \in Squares |-> rows[8 - RankOf(sq)][FileOf(sq) + 1]]

DEFAULT_FEN ==
    [board |-> PlacementRows(<<
        <<"r", "n", "b", "q", "k", "b", "n", "r">>,
        <<"p", "p", "p", "p", "p", "p", "p", "p">>,
        <<".", ".", ".", ".", ".", ".", ".", ".">>,
        <<".", ".", ".", ".", ".", ".", ".", ".">>,
        <<".", ".", ".", ".", ".", ".", ".", ".">>,
        <<".", ".", ".", ".", ".", ".", ".", ".">>,
        <<"P", "P", "P", "P", "P", "P", "P", "P">>,
        <<"R", "N", "B", "Q", "K", "B", "N", "R">> >>),
     stm |-> "w",
     castle |-> {"K", "Q", "k", "q"},
     ep |-> NoSquare,
     halfmove |-> "0",
     fullmove |-> "1"]

Board_from_str(fen) ==
    [board |-> fen.board, stm |-> fen.stm, castle |-> fen.castle, ep |-> fen.ep]

Board_to_string(pos) ==
    [board |-> pos.board, stm |-> pos.stm, castle |-> pos.castle, ep |-> pos.ep,
     halfmove |-> "0", fullmove |-> "1"]


---------------------------------------------------------------------------
(* Shared types of lib.rs.  Option<T> is a sequence of at most one item;   *)
(* a String is the sequence of its characters.                             *)

None == <<>>

Some(x) == <<x>>

White == "White"

Black == "Black"

Lobby == "Lobby"

Active == "Active"

Finished == "Finished"

other(color) == IF color = White THEN Black ELSE White

(* PlayerStats::new starting a record at a rating of 1200.                 *)
PlayerStats_newRated(chain_id) ==
    [chain_id |-> chain_id, wins |-> 0, losses |-> 0, draws |-> 0,
     games_played |-> 0, rating |-> 1200]

PlayerStats_new(chain_id) ==
    [chain_id |-> chain_id, wins |-> 0, losses |-> 0, draws |-> 0,
     games_played |-> 0, rating |-> 0]

MoveRecord(uci, san, played_by, played_at) ==
    [uci |-> uci, san |-> san, played_by |-> played_by, played_at |-> played_at]

to_summary(game) ==
    [game_id |-> game.game_id, white |-> game.white, black |-> game.black,
     ai_black |-> game.ai_black, board_fen |-> game.board_fen, moves |-> game.moves,
     turn |-> game.turn, status |-> game.status, winner |-> game.winner,
     created_at |-> game.created_at, updated_at |-> game.updated_at,
     metadata |-> game.metadata]

(* ChainChessError and its Display text.                                   *)
GameNotFound(id) == <<"game ", id, " was not found">>

NotJoinable(id) == <<"game ", id, " is not joinable">>

NotYourTurn == <<"it is not your turn">>

AlreadyFinished == <<"game is already finished">>

MissingOpponent == <<"game is still waiting for an opponent">>

InvalidMove(why) == <<"invalid move: ", why>>

NotParticipant == <<"you are not a participant in this game">>

LobbyLimitReached == <<"cannot create more than 64 concurrent games per chain">>

Response_ok(message, game) == [success |-> TRUE, message |-> message, game |-> game]

Response_err(message) == [success |-> FALSE, message |-> message, game |-> None]

from_error(err) == Response_err(err)

(* Result<T, E>.                                                           *)
Ok(v) == [ok |-> TRUE, value |-> v]

Err(e) == [ok |-> FALSE, value |-> e]

MAX_OPEN_GAMES_PER_CHAIN == 64

---------------------------------------------------------------------------
(* Move text.                                                              *)

UpperChars == <<"A", "B", "C", "D", "E", "F", "G", "H", "N", "Q", "R">>

LowerChars == <<"a", "b", "c", "d", "e", "f", "g", "h", "n", "q", "r">>

(* char::to_lowercase on the characters the inputs use.                    *)
LowerChar(c) ==
    IF \E i \in 1 .. Len(UpperChars) : UpperChars[i] = c
    THEN LowerChars[CHOOSE i \in 1 .. Len(UpperChars) : UpperChars[i] = c]
    ELSE c

to_lowercase(str) == [i \in 1 .. Len(str) |-> LowerChar(str[i])]

(* Square::from_str on a two-character slice, and Square's Display.        *)
Square_from_str(two) ==
    IF /\ \E f \in 1 .. 8 : FileChars[f] = two[1]
       /\ \E r \in 1 .. 8 : RankChars[r] = two[2]
    THEN Ok(SquareAt((CHOOSE f \in 1 .. 8 : FileChars[f] = two[1]) - 1,
                     (CHOOSE r \in 1 .. 8 : RankChars[r] = two[2]) - 1))
    ELSE Err(<<>>)

Square_to_string(sq) == <<FileChars[FileOf(sq) + 1], RankChars[RankOf(sq) + 1]>>

promotion_piece(letter) ==
    LET l == LowerChar(letter)
    IN CASE l = "q" -> Ok("Queen")
         [] l = "r" -> Ok("Rook")
         [] l = "b" -> Ok("Bishop")
         [] l = "n" -> Ok("Knight")
         [] OTHER -> Err(<<>>)

parse_uci_move(uci) ==
    IF Len(uci) < 4 THEN Err(<<>>)
    ELSE LET from == Square_from_str(SubSeq(uci, 1, 2))
             to == Square_from_str(SubSeq(uci, 3, 4))
             promo_piece == IF Len(uci) > 4
                            THEN promotion_piece(uci[Len(uci)])
                            ELSE Ok(NoPromotion)
         IN IF ~from.ok THEN Err(<<>>)
            ELSE IF ~to.ok THEN Err(<<>>)
            ELSE IF ~promo_piece.ok THEN Err(<<>>)
            ELSE Ok(Move(from.value, to.value, promo_piece.value))

move_to_uci_string(mv) ==
    Square_to_string(mv.from) \o Square_to_string(mv.to)
    \o (IF mv.promo = NoPromotion THEN <<>>
        ELSE <<CASE mv.promo = "Queen" -> "q" [] mv.promo = "Rook" -> "r"
                 [] mv.promo = "Bishop" -> "b" [] mv.promo = "Knight" -> "n"
                 [] OTHER -> "q">>)

generate_san(board, mv) ==
    LET from == mv.from
        to == mv.to
        piece == board.board[from]
        kind == IF piece = Empty THEN "none" ELSE PieceKind[piece]
        piece_char == CASE kind = "King" -> "K" [] kind = "Queen" -> "Q"
                        [] kind = "Rook" -> "R" [] kind = "Bishop" -> "B"
                        [] kind = "Knight" -> "N" [] OTHER -> " "
        from_sq == Square_to_string(from)
        to_sq == Square_to_string(to)
        promo_char == CASE mv.promo = "Queen" -> "Q" [] mv.promo = "Rook" -> "R"
                        [] mv.promo = "Bishop" -> "B" [] mv.promo = "Knight" -> "N"
                        [] OTHER -> "Q"
    IN IF board.board[to] # Empty
       THEN (IF piece_char = " " THEN <<from_sq[1]>> \o to_sq
             ELSE <<piece_char, "x">> \o to_sq)
       ELSE IF mv.promo # NoPromotion THEN from_sq \o to_sq \o <<"=", promo_char>>
       ELSE IF piece_char # " " THEN <<piece_char>> \o to_sq
       ELSE from_sq \o to_sq

MatchWinner(color) == [kind |-> "Winner", color |-> color]

MatchDraw == [kind |-> "Draw", color |-> White]

(* MoveResult naming the side to move after the move, the mated side, as  *)
(* the winner.                                                             *)
MoveResultMatedWins(fen_board, st) ==
    CASE st = "Ongoing" -> None
      [] st = "Stalemate" -> Some(MatchDraw)
      [] OTHER -> Some(MatchWinner(IF fen_board.stm = "w" THEN Black ELSE White))

(* MoveResult counting every position without a legal move as a win.       *)
MoveResultStalemateWins(fen_board, st) ==
    CASE st = "Ongoing" -> None
      [] OTHER -> Some(MatchWinner(IF fen_board.stm = "w" THEN White ELSE Black))

(* The match on board_after.status() in apply_uci_move (lines 371-384).    *)
MoveResult(fen_board, st) ==
    CASE st = "Ongoing" -> None
      [] st = "Stalemate" -> Some(MatchDraw)
      [] OTHER -> Some(MatchWinner(IF fen_board.stm = "w" THEN White ELSE Black))

(* The move text apply_uci_move parses (lines 359-364): lowercased, with   *)
(* the first character of the promotion hint, or q for an empty hint,      *)
(* added to a text of four characters.                                     *)
HintedUci(raw_uci, promotion) ==
    IF Len(to_lowercase(raw_uci)) = 4 /\ promotion # None
    THEN Append(to_lowercase(raw_uci),
                IF Len(promotion[1]) > 0 THEN promotion[1][1] ELSE "q")
    ELSE to_lowercase(raw_uci)

(* apply_uci_move testing the move against the moves of the pieces only,   *)
(* without regard to the mover's king.                                     *)
apply_uci_moveIgnoresCheck(current_fen, raw_uci, promotion) ==
    LET fen_board == Board_from_str(current_fen)
        uci == HintedUci(raw_uci, promotion)
        parsed == parse_uci_move(uci)
        chess_move == parsed.value
        board_after == make_move_new(fen_board, chess_move)
    IN IF ~parsed.ok THEN Err(<<>>)
       ELSE IF chess_move \notin PseudoLegal(fen_board) THEN Err(<<>>)
       ELSE Ok([fen |-> Board_to_string(board_after),
                uci |-> uci,
                san |-> Some(generate_san(fen_board, chess_move)),
                result |-> MoveResult(fen_board, status(board_after))])

(* apply_uci_move: Ok(MoveComputation) or Err(()).                         *)
apply_uci_move(current_fen, raw_uci, promotion) ==
    LET fen_board == Board_from_str(current_fen)
        uci == HintedUci(raw_uci, promotion)
        parsed == parse_uci_move(uci)
        chess_move == parsed.value
        board_after == make_move_new(fen_board, chess_move)
    IN IF ~parsed.ok THEN Err(<<>>)
       ELSE IF chess_move \notin LegalMoveSet(fen_board) THEN Err(<<>>)
       ELSE Ok([fen |-> Board_to_string(board_after),
                uci |-> uci,
                san |-> Some(generate_san(fen_board, chess_move)),
                result |-> MoveResult(fen_board, status(board_after))])

---------------------------------------------------------------------------
(* The automated opponent.                                                 *)

piece_value(piece) ==
    CASE PieceKind[piece] = "Pawn" -> 1
      [] PieceKind[piece] \in {"Knight", "Bishop"} -> 3
      [] PieceKind[piece] = "Rook" -> 5
      [] PieceKind[piece] = "Queen" -> 9
      [] OTHER -> 0

square_bonus(square) ==
    LET file == FileOf(square)
        rank == RankOf(square)
    IN IF (file = 3 \/ file = 4) /\ (rank = 3 \/ rank = 4) THEN 2
       ELSE IF file >= 2 /\ file <= 5 /\ rank >= 2 /\ rank <= 5 THEN 1
       ELSE 0

score_move(board, mv) ==
    (IF board.board[mv.to] # Empty THEN piece_value(board.board[mv.to]) ELSE 0)
    + (IF mv.promo # NoPromotion THEN 5 ELSE 0)
    + square_bonus(mv.to)

I32_MIN == 0 - 2147483647 - 1

(* The loop's turn taking a move that only equals the best score so far.   *)
BetterMoveLastWins(board, best, mv) ==
    IF score_move(board, mv) >= best[2] THEN <<Some(mv), score_move(board, mv)>> ELSE best

(* One turn of the loop of pick_ai_move: best is <<best_move, best_score>>.*)
BetterMove(board, best, mv) ==
    IF score_move(board, mv) > best[2] THEN <<Some(mv), score_move(board, mv)>> ELSE best

RECURSIVE PickLoop(_, _, _, _)
PickLoop(board, moves, i, best) ==
    IF i > Len(moves) THEN best
    ELSE PickLoop(board, moves, i + 1, BetterMove(board, best, moves[i]))

(* The last line of pick_ai_move: best_move.map(move_to_uci_string).       *)
BestToUci(best) ==
    IF best[1] = None THEN None ELSE Some(move_to_uci_string(best[1][1]))

pick_ai_move(fen) ==
    BestToUci(PickLoop(Board_from_str(fen), new_legal(Board_from_str(fen)), 1,
                       <<None, I32_MIN>>))

---------------------------------------------------------------------------
(* The contract.  A handler maps the persistent state st (next_game_id,    *)
(* active_games, leaderboard), the caller (runtime.chain_id()) and the     *)
(* block time (runtime.system_time()) to the new state and its Result.     *)

State(n, games, board) == [next_game_id |-> n, active_games |-> games, leaderboard |-> board]

Outcome(st, result) == [state |-> st, result |-> result]

load_game(st, game_id) ==
    IF game_id \in DOMAIN st.active_games
    THEN Ok(st.active_games[game_id])
    ELSE Err(GameNotFound(game_id))

(* MapView::insert: adds the key or replaces its value.                    *)
MapInsert(map, key, value) ==
    [k \in DOMAIN map \cup {key} |-> IF k = key THEN value ELSE map[k]]

save_game(st, game) ==
    [st EXCEPT !.active_games = MapInsert(st.active_games, game.game_id, game)]

player_chain(game, color) == IF color = White THEN Some(game.white) ELSE game.black

(* The closures with the loss left out of games_played.                    *)
StatsUpdateLossUncounted(f, stats) ==
    CASE f = "win" ->
           [stats EXCEPT !.wins = @ + 1, !.games_played = @ + 1, !.rating = @ + 10]
      [] f = "loss" ->
           [stats EXCEPT !.losses = @ + 1, !.rating = @ - 5]
      [] OTHER ->
           [stats EXCEPT !.draws = @ + 1, !.games_played = @ + 1, !.rating = @ + 1]

(* The three closures apply_result hands to bump_stats.                    *)
StatsUpdate(f, stats) ==
    CASE f = "win" ->
           [stats EXCEPT !.wins = @ + 1, !.games_played = @ + 1, !.rating = @ + 10]
      [] f = "loss" ->
           [stats EXCEPT !.losses = @ + 1, !.games_played = @ + 1, !.rating = @ - 5]
      [] OTHER ->
           [stats EXCEPT !.draws = @ + 1, !.games_played = @ + 1, !.rating = @ + 1]

bump_stats(st, chain_id, f) ==
    LET stats == IF chain_id \in DOMAIN st.leaderboard
                 THEN st.leaderboard[chain_id]
                 ELSE PlayerStats_new(chain_id)
    IN [st EXCEPT !.leaderboard = MapInsert(st.leaderboard, chain_id, StatsUpdate(f, stats))]

(* BumpSeat booking a result only on a game whose two seats have a chain.  *)
BumpSeatBothSeated(st, game, color, f) ==
    IF player_chain(game, color) # None /\ game.black # None
    THEN bump_stats(st, player_chain(game, color)[1], f)
    ELSE st

(* bump_stats for the seat of `color`, skipped when the seat has no chain. *)
BumpSeat(st, game, color, f) ==
    IF player_chain(game, color) # None
    THEN bump_stats(st, player_chain(game, color)[1], f)
    ELSE st

(* apply_result booking the loss only when the winning seat has a chain.   *)
apply_resultLoserNeedsWinner(st, game0, result, time) ==
    LET game == [game0 EXCEPT !.status = Finished,
                              !.winner = IF result.kind = "Winner"
                                         THEN Some(result.color) ELSE None,
                              !.updated_at = time]
        st2 == IF game.winner # None
               THEN (IF player_chain(game, game.winner[1]) # None
                     THEN BumpSeat(BumpSeat(st, game, game.winner[1], "win"),
                                   game, other(game.winner[1]), "loss")
                     ELSE st)
               ELSE BumpSeat(BumpSeat(st, game, White, "draw"),
                             game, Black, "draw")
    IN [state |-> st2, game |-> game]

(* apply_result booking the result without closing the game.               *)
apply_resultLeavesStatus(st, game0, result, time) ==
    LET game == [game0 EXCEPT !.winner = IF result.kind = "Winner"
                                         THEN Some(result.color) ELSE None,
                              !.updated_at = time]
        st2 == IF game.winner # None
               THEN BumpSeat(BumpSeat(st, game, game.winner[1], "win"),
                             game, other(game.winner[1]), "loss")
               ELSE BumpSeat(BumpSeat(st, game, White, "draw"),
                             game, Black, "draw")
    IN [state |-> st2, game |-> game]

(* apply_result: the finished game (not yet saved) and the new state.      *)
apply_result(st, game0, result, time) ==
    LET game == [game0 EXCEPT !.status = Finished,
                              !.winner = IF result.kind = "Winner"
                                         THEN Some(result.color) ELSE None,
                              !.updated_at = time]
        st2 == IF game.winner # None
               THEN BumpSeat(BumpSeat(st, game, game.winner[1], "win"),
                             game, other(game.winner[1]), "loss")
               ELSE BumpSeat(BumpSeat(st, game, White, "draw"),
                             game, Black, "draw")
    IN [state |-> st2, game |-> game]

(* list_games_for_chain keeping the finished games whatever the flag.      *)
list_games_for_chainCountsFinished(st, chain, finished) ==
    Cardinality({id \in DOMAIN st.active_games : st.active_games[id].white = chain})

list_games_for_chain(st, chain, finished) ==
    Cardinality({id \in DOMAIN st.active_games :
                    /\ st.active_games[id].white = chain
                    /\ (finished \/ st.active_games[id].status # Finished)})

(* create_game opening every game as a Lobby, the automated ones too.      *)
create_gameAlwaysLobby(st, caller, time, metadata, play_vs_ai) ==
    LET creator == caller
        pending_games == list_games_for_chain(st, creator, FALSE)
        game_id == st.next_game_id
        game == [game_id |-> game_id,
                 white |-> creator,
                 black |-> None,
                 ai_black |-> play_vs_ai,
                 board_fen |-> DEFAULT_FEN,
                 moves |-> <<>>,
                 turn |-> White,
                 status |-> Lobby,
                 winner |-> None,
                 created_at |-> time,
                 updated_at |-> time,
                 metadata |-> metadata]
    IN IF pending_games >= MAX_OPEN_GAMES_PER_CHAIN
       THEN Outcome(st, Err(LobbyLimitReached))
       ELSE Outcome([st EXCEPT !.next_game_id = game_id + 1,
                               !.active_games = MapInsert(st.active_games, game_id, game)],
                    Ok(Response_ok(<<"Game lobby created">>, Some(to_summary(game)))))

(* create_game leaving the next-game-id counter where it was.              *)
create_gameKeepsCounter(st, caller, time, metadata, play_vs_ai) ==
    LET creator == caller
        pending_games == list_games_for_chain(st, creator, FALSE)
        game_id == st.next_game_id
        game == [game_id |-> game_id,
                 white |-> creator,
                 black |-> None,
                 ai_black |-> play_vs_ai,
                 board_fen |-> DEFAULT_FEN,
                 moves |-> <<>>,
                 turn |-> White,
                 status |-> IF play_vs_ai THEN Active ELSE Lobby,
                 winner |-> None,
                 created_at |-> time,
                 updated_at |-> time,
                 metadata |-> metadata]
    IN IF pending_games >= MAX_OPEN_GAMES_PER_CHAIN
       THEN Outcome(st, Err(LobbyLimitReached))
       ELSE Outcome([st EXCEPT !.active_games = MapInsert(st.active_games, game_id, game)],
                    Ok(Response_ok(<<"Game lobby created">>, Some(to_summary(game)))))

(* create_game taking the next id before it tests the ceiling.             *)
create_gameTakesIdFirst(st, caller, time, metadata, play_vs_ai) ==
    LET creator == caller
        pending_games == list_games_for_chain(st, creator, FALSE)
        game_id == st.next_game_id
        game == [game_id |-> game_id,
                 white |-> creator,
                 black |-> None,
                 ai_black |-> play_vs_ai,
                 board_fen |-> DEFAULT_FEN,
                 moves |-> <<>>,
                 turn |-> White,
                 status |-> IF play_vs_ai THEN Active ELSE Lobby,
                 winner |-> None,
                 created_at |-> time,
                 updated_at |-> time,
                 metadata |-> metadata]
    IN IF pending_games >= MAX_OPEN_GAMES_PER_CHAIN
       THEN Outcome([st EXCEPT !.next_game_id = game_id + 1], Err(LobbyLimitReached))
       ELSE Outcome([st EXCEPT !.next_game_id = game_id + 1,
                               !.active_games = MapInsert(st.active_games, game_id, game)],
                    Ok(Response_ok(<<"Game lobby created">>, Some(to_summary(game)))))

create_game(st, caller, time, metadata, play_vs_ai) ==
    LET creator == caller
        pending_games == list_games_for_chain(st, creator, FALSE)
        game_id == st.next_game_id
        game == [game_id |-> game_id,
                 white |-> creator,
                 black |-> None,
                 ai_black |-> play_vs_ai,
                 board_fen |-> DEFAULT_FEN,
                 moves |-> <<>>,
                 turn |-> White,
                 status |-> IF play_vs_ai THEN Active ELSE Lobby,
                 winner |-> None,
                 created_at |-> time,
                 updated_at |-> time,
                 metadata |-> metadata]
    IN IF pending_games >= MAX_OPEN_GAMES_PER_CHAIN
       THEN Outcome(st, Err(LobbyLimitReached))
       ELSE Outcome([st EXCEPT !.next_game_id = game_id + 1,
                               !.active_games = MapInsert(st.active_games, game_id, game)],
                    Ok(Response_ok(<<"Game lobby created">>, Some(to_summary(game)))))

(* join_game stamping the moment of the join on created_at as well.        *)
join_gameRestampsCreated(st, caller, time, game_id) ==
    LET loaded == load_game(st, game_id)
    IN IF ~loaded.ok THEN Outcome(st, Err(loaded.value))
       ELSE LET game == loaded.value
            IN IF game.ai_black THEN Outcome(st, Err(NotJoinable(game_id)))
               ELSE IF game.status # Lobby \/ game.black # None
                    THEN Outcome(st, Err(NotJoinable(game_id)))
               ELSE IF caller = game.white THEN Outcome(st, Err(NotJoinable(game_id)))
               ELSE LET joined == [game EXCEPT !.black = Some(caller),
                                               !.status = Active,
                                               !.created_at = time,
                                               !.updated_at = time]
                    IN Outcome(save_game(st, joined),
                               Ok(Response_ok(<<"Joined game successfully">>,
                                              Some(to_summary(joined)))))

(* join_game seating the game's creator, not the caller, as Black.         *)
join_gameSeatsCreator(st, caller, time, game_id) ==
    LET loaded == load_game(st, game_id)
    IN IF ~loaded.ok THEN Outcome(st, Err(loaded.value))
       ELSE LET game == loaded.value
            IN IF game.ai_black THEN Outcome(st, Err(NotJoinable(game_id)))
               ELSE IF game.status # Lobby \/ game.black # None
                    THEN Outcome(st, Err(NotJoinable(game_id)))
               ELSE IF caller = game.white THEN Outcome(st, Err(NotJoinable(game_id)))
               ELSE LET joined == [game EXCEPT !.black = Some(game.white),
                                               !.status = Active,
                                               !.updated_at = time]
                    IN Outcome(save_game(st, joined),
                               Ok(Response_ok(<<"Joined game successfully">>,
                                              Some(to_summary(joined)))))

(* join_game without the test that keeps the creator out of the second     *)
(* seat.                                                                   *)
join_gameSelfJoin(st, caller, time, game_id) ==
    LET loaded == load_game(st, game_id)
    IN IF ~loaded.ok THEN Outcome(st, Err(loaded.value))
       ELSE LET game == loaded.value
            IN IF game.ai_black THEN Outcome(st, Err(NotJoinable(game_id)))
               ELSE IF game.status # Lobby \/ game.black # None
                    THEN Outcome(st, Err(NotJoinable(game_id)))
               ELSE LET joined == [game EXCEPT !.black = Some(caller),
                                               !.status = Active,
                                               !.updated_at = time]
                    IN Outcome(save_game(st, joined),
                               Ok(Response_ok(<<"Joined game successfully">>,
                                              Some(to_summary(joined)))))

join_game(st, caller, time, game_id) ==
    LET loaded == load_game(st, game_id)
    IN IF ~loaded.ok THEN Outcome(st, Err(loaded.value))
       ELSE LET game == loaded.value
            IN IF game.ai_black THEN Outcome(st, Err(NotJoinable(game_id)))
               ELSE IF game.status # Lobby \/ game.black # None
                    THEN Outcome(st, Err(NotJoinable(game_id)))
               ELSE IF caller = game.white THEN Outcome(st, Err(NotJoinable(game_id)))
               ELSE LET joined == [game EXCEPT !.black = Some(caller),
                                               !.status = Active,
                                               !.updated_at = time]
                    IN Outcome(save_game(st, joined),
                               Ok(Response_ok(<<"Joined game successfully">>,
                                              Some(to_summary(joined)))))

(* PlayMove leaving the turn with the mover when the move ends the game.   *)
PlayMoveTerminalKeepsTurn(st, game0, outcome, player_color, next_turn, time) ==
    LET game == [game0 EXCEPT !.board_fen = outcome.fen,
                              !.turn = IF outcome.result # None
                                       THEN player_color ELSE next_turn,
                              !.moves = Append(@, MoveRecord(outcome.uci, outcome.san,
                                                             player_color, time)),
                              !.updated_at = time]
    IN IF outcome.result # None
       THEN apply_result(st, game, outcome.result[1], time)
       ELSE [state |-> st, game |-> game]

(* The part of submit_move that plays one accepted move: the record is     *)
(* appended, the turn handed over and a terminal result applied.           *)
PlayMove(st, game0, outcome, player_color, next_turn, time) ==
    LET game == [game0 EXCEPT !.board_fen = outcome.fen,
                              !.turn = next_turn,
                              !.moves = Append(@, MoveRecord(outcome.uci, outcome.san,
                                                             player_color, time)),
                              !.updated_at = time]
    IN IF outcome.result # None
       THEN apply_result(st, game, outcome.result[1], time)
       ELSE [state |-> st, game |-> game]

(* The automated reply of submit_move (lines 198-216), innermost first:    *)
(* the reply is played when apply_uci_move accepts it, asked for when      *)
(* pick_ai_move found a move, and due when the game is an automated one,   *)
(* still Active, with Black to move.                                       *)
(* AiPlay with the reply recorded under the human seat.                     *)
AiPlayAsWhite(st, game, time, ai_outcome) ==
    IF ~ai_outcome.ok THEN [state |-> st, game |-> game]
    ELSE PlayMove(st, game, ai_outcome.value, White, White, time)

AiPlay(st, game, time, ai_outcome) ==
    IF ~ai_outcome.ok THEN [state |-> st, game |-> game]
    ELSE PlayMove(st, game, ai_outcome.value, Black, White, time)

AiApply(st, game, time, ai_move) ==
    IF ai_move = None THEN [state |-> st, game |-> game]
    ELSE AiPlay(st, game, time, apply_uci_move(game.board_fen, ai_move[1], None))

(* AiReply asking for a reply only when the second seat holds a chain.     *)
AiReplySeatedOnly(st, game, time) ==
    IF game.ai_black /\ game.black # None /\ game.status = Active /\ game.turn = Black
    THEN AiApply(st, game, time, pick_ai_move(game.board_fen))
    ELSE [state |-> st, game |-> game]

AiReply(st, game, time) ==
    IF game.ai_black /\ game.status = Active /\ game.turn = Black
    THEN AiApply(st, game, time, pick_ai_move(game.board_fen))
    ELSE [state |-> st, game |-> game]

(* The end of submit_move (lines 218-222): the game is saved and returned. *)
SaveAndReturn(replied) ==
    Outcome(save_game(replied.state, replied.game),
            Ok(Response_ok(<<"Move accepted">>, Some(to_summary(replied.game)))))

AfterHumanMove(played, time) == SaveAndReturn(AiReply(played.state, played.game, time))

(* submit_move from the call of apply_uci_move on (lines 178-222).         *)
SubmitValidated(st, game, player_color, time, move_outcome) ==
    IF ~move_outcome.ok
    THEN Outcome(st, Err(InvalidMove(<<"move is illegal in current position">>)))
    ELSE AfterHumanMove(PlayMove(st, game, move_outcome.value,
                                 player_color, other(player_color), time), time)

(* submit_move resolving the caller's seat before it looks at the status.  *)
submit_moveSeatFirst(st, caller, time, game_id, uci, promotion) ==
    LET loaded == load_game(st, game_id)
        game == loaded.value
        seated == \/ caller = game.white
                  \/ game.black = Some(caller)
                  \/ (game.ai_black /\ game.black = None /\ caller = game.white)
        player_color == IF caller = game.white THEN White
                        ELSE IF game.black = Some(caller) THEN Black
                        ELSE White
    IN IF ~loaded.ok THEN Outcome(st, Err(loaded.value))
       ELSE IF ~seated THEN Outcome(st, Err(NotParticipant))
       ELSE IF game.status = Finished THEN Outcome(st, Err(AlreadyFinished))
       ELSE IF game.status = Lobby THEN Outcome(st, Err(MissingOpponent))
       ELSE IF player_color # game.turn THEN Outcome(st, Err(NotYourTurn))
       ELSE SubmitValidated(st, game, player_color, time,
                            apply_uci_move(game.board_fen, uci, promotion))

submit_move(st, caller, time, game_id, uci, promotion) ==
    LET loaded == load_game(st, game_id)
        game == loaded.value
        seated == \/ caller = game.white
                  \/ game.black = Some(caller)
                  \/ (game.ai_black /\ game.black = None /\ caller = game.white)
        player_color == IF caller = game.white THEN White
                        ELSE IF game.black = Some(caller) THEN Black
                        ELSE White
    IN IF ~loaded.ok THEN Outcome(st, Err(loaded.value))
       ELSE IF game.status = Finished THEN Outcome(st, Err(AlreadyFinished))
       ELSE IF game.status = Lobby THEN Outcome(st, Err(MissingOpponent))
       ELSE IF ~seated THEN Outcome(st, Err(NotParticipant))
       ELSE IF player_color # game.turn THEN Outcome(st, Err(NotYourTurn))
       ELSE SubmitValidated(st, game, player_color, time,
                            apply_uci_move(game.board_fen, uci, promotion))

(* resign without the test for a game that is already over.                *)
resignFinished(st, caller, time, game_id) ==
    LET loaded == load_game(st, game_id)
    IN IF ~loaded.ok THEN Outcome(st, Err(loaded.value))
       ELSE LET game == loaded.value
                seated == caller = game.white \/ game.black = Some(caller)
                player_color == IF caller = game.white THEN White ELSE Black
            IN IF ~seated THEN Outcome(st, Err(NotParticipant))
               ELSE LET done == apply_result(st, game, MatchWinner(other(player_color)), time)
                    IN Outcome(save_game(done.state, done.game),
                               Ok(Response_ok(<<"Resigned successfully">>,
                                              Some(to_summary(done.game)))))

(* resign with the resigning seat recorded as the winner.                  *)
resignWinnerSelf(st, caller, time, game_id) ==
    LET loaded == load_game(st, game_id)
    IN IF ~loaded.ok THEN Outcome(st, Err(loaded.value))
       ELSE LET game == loaded.value
                seated == caller = game.white \/ game.black = Some(caller)
                player_color == IF caller = game.white THEN White ELSE Black
            IN IF game.status = Finished THEN Outcome(st, Err(AlreadyFinished))
               ELSE IF ~seated THEN Outcome(st, Err(NotParticipant))
               ELSE LET done == apply_result(st, game, MatchWinner(player_color), time)
                    IN Outcome(save_game(done.state, done.game),
                               Ok(Response_ok(<<"Resigned successfully">>,
                                              Some(to_summary(done.game)))))

resign(st, caller, time, game_id) ==
    LET loaded == load_game(st, game_id)
    IN IF ~loaded.ok THEN Outcome(st, Err(loaded.value))
       ELSE LET game == loaded.value
                seated == caller = game.white \/ game.black = Some(caller)
                player_color == IF caller = game.white THEN White ELSE Black
            IN IF game.status = Finished THEN Outcome(st, Err(AlreadyFinished))
               ELSE IF ~seated THEN Outcome(st, Err(NotParticipant))
               ELSE LET done == apply_result(st, game, MatchWinner(other(player_color)), time)
                    IN Outcome(save_game(done.state, done.game),
                               Ok(Response_ok(<<"Resigned successfully">>,
                                              Some(to_summary(done.game)))))

(* execute_operation: an Err becomes ChainChessResponse::from_error.       *)
execute_operation(outcome) ==
    [state |-> outcome.state,
     response |-> IF outcome.result.ok THEN outcome.result.value
                  ELSE from_error(outcome.result.value)]


---------------------------------------------------------------------------
(* The state machine: one action per operation of the contract.  The       *)
(* caller and the operation's arguments are inputs, drawn from small sets. *)

St == State(next_game_id, active_games, leaderboard)

(* The operation's effect on the persistent state and the response it      *)
(* returns.                                                                *)
Apply(outcome) ==
    LET done == execute_operation(outcome)
    IN /\ next_game_id' = done.state.next_game_id
       /\ active_games' = done.state.active_games
       /\ leaderboard' = done.state.leaderboard
       /\ response' = done.response
       /\ UNCHANGED now

DoCreate(callers, metadatas, limit) ==
    \E c \in callers, metadata \in metadatas, play_vs_ai \in BOOLEAN :
        /\ next_game_id <= limit
        /\ Apply(create_game(St, c, now, metadata, play_vs_ai))

DoJoin(callers, ids) ==
    \E c \in callers, game_id \in ids :
        Apply(join_game(St, c, now, game_id))

DoSubmit(callers, ids, ucis, promotions) ==
    \E c \in callers, game_id \in ids, uci \in ucis, promotion \in promotions :
        Apply(submit_move(St, c, now, game_id, uci, promotion))

DoResign(callers, ids) ==
    \E c \in callers, game_id \in ids :
        Apply(resign(St, c, now, game_id))

(* Move text is written file, rank, file, rank.                            *)
U(f1, r1, f2, r2) == <<f1, r1, f2, r2>>

---------------------------------------------------------------------------
(* Spec: the life of games from a newly instantiated contract.             *)

Chains == {"A", "B"}

MaxGames == 2

GameIdInputs == 1 .. MaxGames + 1

MetadataInputs == {None}

UciInputs == {U("f", "2", "f", "3"), U("e", "7", "e", "5"), U("f", "1", "d", "3")}

PromotionInputs == {None}

(* load followed by instantiate on a new chain: next_game_id starts at 1.  *)
Init ==
    /\ next_game_id = 1
    /\ active_games = <<>>
    /\ leaderboard = <<>>
    /\ now = 0
    /\ response = Response_ok(<<>>, None)

CreateGame == DoCreate(Chains, MetadataInputs, MaxGames)

JoinGame == DoJoin(Chains, GameIdInputs)

SubmitMove == DoSubmit(Chains, GameIdInputs, UciInputs, PromotionInputs)

Resign == DoResign(Chains, GameIdInputs)

Next == CreateGame \/ JoinGame \/ SubmitMove \/ Resign

Spec == Init /\ [][Next]_vars

---------------------------------------------------------------------------
(* SpecPlay: play from positions the contract reaches.  Each initial state *)
(* is the result of running a script of operations through the handlers    *)
(* from the instantiated contract: game 1 is an automated game its creator *)
(* C resigned, game 2 is the game played on.                               *)

PlayChains == {"A", "B", "C"}

Fresh == State(1, <<>>, <<>>)

OpCreate(caller, play_vs_ai) ==
    [kind |-> "create", caller |-> caller, play_vs_ai |-> play_vs_ai]

OpJoin(caller, game_id) == [kind |-> "join", caller |-> caller, game_id |-> game_id]

OpMove(caller, game_id, uci) ==
    [kind |-> "move", caller |-> caller, game_id |-> game_id, uci |-> uci]

OpResign(caller, game_id) == [kind |-> "resign", caller |-> caller, game_id |-> game_id]

RunOp(st, op) ==
    execute_operation(
        CASE op.kind = "create" -> create_game(st, op.caller, 0, None, op.play_vs_ai)
          [] op.kind = "join" -> join_game(st, op.caller, 0, op.game_id)
          [] op.kind = "move" -> submit_move(st, op.caller, 0, op.game_id, op.uci, None)
          [] OTHER -> resign(st, op.caller, 0, op.game_id))

(* The state and the last response after ops[i..], every one succeeding.   *)
RECURSIVE RunScript(_, _, _)
RunScript(done, ops, i) ==
    IF i > Len(ops) \/ ~done.response.success THEN done
    ELSE RunScript(RunOp(done.state, ops[i]), ops, i + 1)

(* The moves of a two-human game, White and Black submitting in turn.      *)
Line(game_id, white, black, ucis) ==
    [i \in 1 .. Len(ucis) |-> OpMove(IF i % 2 = 1 THEN white ELSE black, game_id, ucis[i])]

Opening == <<OpCreate("C", TRUE), OpResign("C", 1)>>

TwoHumans == Opening \o <<OpCreate("A", FALSE), OpJoin("B", 2)>>

(* 1.e3 a5 2.Qh5 Ra6 3.Qxa5 h5 4.h4 Rah6 5.Qxc7 f6 6.Qxd7+ Kf7 7.Qxb7 Qd3  *)
(* 8.Qxb8 Qh7 9.Qxc8 Kg6, after which 10.Qe6 is stalemate.                 *)
StalemateLine ==
    <<U("e", "2", "e", "3"), U("a", "7", "a", "5"), U("d", "1", "h", "5"),
      U("a", "8", "a", "6"), U("h", "5", "a", "5"), U("h", "7", "h", "5"),
      U("h", "2", "h", "4"), U("a", "6", "h", "6"), U("a", "5", "c", "7"),
      U("f", "7", "f", "6"), U("c", "7", "d", "7"), U("e", "8", "f", "7"),
      U("d", "7", "b", "7"), U("d", "8", "d", "3"), U("b", "7", "b", "8"),
      U("d", "3", "h", "7"), U("b", "8", "c", "8"), U("f", "7", "g", "6")>>

(* 1.e4 e5 2.Qh5 Nc6 3.Bc4 Nf6, after which 4.Qxf7 is checkmate.           *)
MateLine ==
    <<U("e", "2", "e", "4"), U("e", "7", "e", "5"), U("d", "1", "h", "5"),
      U("b", "8", "c", "6"), U("f", "1", "c", "4"), U("g", "8", "f", "6")>>

(* 1.h4 g5 2.hxg5 h6 3.gxh6 Bg7 4.hxg7 Nf6: the g7 pawn can promote on g8  *)
(* or by capturing on h8.                                                  *)
PromotionLine ==
    <<U("h", "2", "h", "4"), U("g", "7", "g", "5"), U("h", "4", "g", "5"),
      U("h", "7", "h", "6"), U("g", "5", "h", "6"), U("f", "8", "g", "7"),
      U("h", "6", "g", "7"), U("g", "8", "f", "6")>>

(* A and B sit down to game 2 after A resigned the automated game 1.       *)
Rematch ==
    <<OpCreate("A", TRUE), OpResign("A", 1), OpCreate("A", FALSE), OpJoin("B", 2)>>

(* 1.e4 2.Qh5 3.Bc4 against the automated seat, which answers d5, dxe4 and *)
(* e5, after which 4.Qxf7 is checkmate.                                    *)
AiMateLine == <<U("e", "2", "e", "4"), U("d", "1", "h", "5"), U("f", "1", "c", "4")>>

Scripts ==
    {TwoHumans,
     TwoHumans \o Line(2, "A", "B", StalemateLine),
     TwoHumans \o Line(2, "A", "B", MateLine),
     TwoHumans \o Line(2, "A", "B", PromotionLine),
     Opening \o <<OpCreate("A", TRUE)>>,
     Opening \o <<OpCreate("A", FALSE)>>,
     Rematch \o Line(2, "A", "B", MateLine),
     Opening \o <<OpCreate("A", TRUE)>> \o Line(2, "A", "A", AiMateLine)}

PlayIds == {2}

PlayUcis ==
    {U("f", "2", "f", "3"), U("e", "7", "e", "5"), U("g", "2", "g", "4"),
     U("d", "8", "h", "4"), U("e", "2", "e", "4"), U("E", "2", "E", "4"),
     U("c", "8", "e", "6"), U("h", "5", "f", "7"), U("g", "7", "g", "8"),
     U("g", "7", "h", "8"), U("f", "1", "d", "3"), U("e", "9", "e", "4"),
     <<"e", "2", "e">>, <<"g", "7", "g", "8", "n">>, <<"g", "7", "g", "8", "k">>}

PlayPromotions == {None, Some(<<"n">>), Some(<<>>)}

InitPlay ==
    \E script \in Scripts :
        LET done == RunScript([state |-> Fresh, response |-> Response_ok(<<>>, None)],
                              script, 1)
        IN /\ done.response.success
           /\ next_game_id = done.state.next_game_id
           /\ active_games = done.state.active_games
           /\ leaderboard = done.state.leaderboard
           /\ now = 0
           /\ response = done.response

PlaySubmitMove == DoSubmit(PlayChains, PlayIds, PlayUcis, PlayPromotions)

PlayResign == DoResign(PlayChains, PlayIds)

NextPlay == PlaySubmitMove \/ PlayResign

SpecPlay == InitPlay /\ [][NextPlay]_vars


---------------------------------------------------------------------------
(* SpecCap: the open-game ceiling.  The initial state is the contract      *)
(* after chain A created one game short of the ceiling, automated and      *)
(* human games in turn; CapExtra bounds the games created from there.      *)

CapExtra == 2

CapStart == [i \in 1 .. MAX_OPEN_GAMES_PER_CHAIN - 1 |-> OpCreate("A", i % 2 = 1)]

CapChains == {"A", "B"}

CapIds == {2, MAX_OPEN_GAMES_PER_CHAIN, MAX_OPEN_GAMES_PER_CHAIN + CapExtra}

CapUcis == {U("f", "2", "f", "3"), U("f", "1", "d", "3")}

InitCap ==
    LET done == RunScript([state |-> Fresh, response |-> Response_ok(<<>>, None)],
                          CapStart, 1)
    IN /\ done.response.success
       /\ next_game_id = done.state.next_game_id
       /\ active_games = done.state.active_games
       /\ leaderboard = done.state.leaderboard
       /\ now = 0
       /\ response = done.response

CapCreateGame ==
    DoCreate(CapChains, MetadataInputs, MAX_OPEN_GAMES_PER_CHAIN + CapExtra - 1)

CapJoinGame == DoJoin(CapChains, CapIds)

CapSubmitMove == DoSubmit(CapChains, CapIds, CapUcis, PromotionInputs)

CapResign == DoResign(CapChains, CapIds)

NextCap == CapCreateGame \/ CapJoinGame \/ CapSubmitMove \/ CapResign

SpecCap == InitCap /\ [][NextCap]_vars


---------------------------------------------------------------------------
(* SpecTime: Spec with the block time moving between operations and with   *)
(* games created with metadata.  MaxTime bounds the clock.                 *)

MaxTime == 1

TimeCreators == {"A"}

TimeMetadata == {Some(<<"m">>)}

TimeUcis == {U("f", "2", "f", "3")}

TimeCreateGame == DoCreate(TimeCreators, TimeMetadata, MaxGames)

TimeJoinGame == DoJoin(Chains, 1 .. MaxGames)

TimeSubmitMove == DoSubmit(Chains, 1 .. MaxGames, TimeUcis, PromotionInputs)

TimeResign == DoResign(Chains, 1 .. MaxGames)

(* A later block: runtime.system_time() has advanced.                      *)
Tick ==
    /\ now < MaxTime
    /\ now' = now + 1
    /\ UNCHANGED <<next_game_id, active_games, leaderboard, response>>

NextTime == TimeCreateGame \/ TimeJoinGame \/ TimeSubmitMove \/ TimeResign \/ Tick

SpecTime == Init /\ [][NextTime]_vars


---------------------------------------------------------------------------
(* Properties.                                                             *)

SeatOfPly(k) == IF k % 2 = 1 THEN White ELSE Black

AlternatingHistory ==
    \A id \in DOMAIN active_games :
        \A k \in 1 .. Len(active_games[id].moves) :
            active_games[id].moves[k].played_by = SeatOfPly(k)

(* In one step every game's history is extended at its end only, and its  *)
(* turn is handed over once per record added.                              *)
TurnFlipsPerMove ==
    \A id \in DOMAIN active_games :
        LET before == active_games[id]
            after == active_games'[id]
            added == Len(after.moves) - Len(before.moves)
        IN /\ id \in DOMAIN active_games'
           /\ added >= 0
           /\ SubSeq(after.moves, 1, Len(before.moves)) = before.moves
           /\ after.turn = (IF added % 2 = 1 THEN other(before.turn) ELSE before.turn)

(* C1: in every game the k-th record of the move history, counted from 0,  *)
(* is played by White when k is even and by Black when k is odd, the       *)
(* automated replies included, and every accepted move hands the turn to   *)
(* the other seat exactly once.                                            *)
C1_MovesAlternate == []AlternatingHistory /\ [][TurnFlipsPerMove]_vars

(* An automated game with two human moves and two replies on record.       *)
C1_Witness ==
    \E id \in DOMAIN active_games :
        /\ active_games[id].ai_black
        /\ Len(active_games[id].moves) >= 4
        /\ active_games[id].moves[4].played_by = Black
        /\ active_games[id].turn = White

(* Every identity that may call: the two seats and an outsider.            *)
AnyCaller == PlayChains

StatusRank(st) == CASE st = Lobby -> 0 [] st = Active -> 1 [] OTHER -> 2

FinishedRejects ==
    \A id \in DOMAIN active_games :
        active_games[id].status = Finished =>
            \A c \in AnyCaller :
                /\ join_game(St, c, now, id) = Outcome(St, Err(NotJoinable(id)))
                /\ resign(St, c, now, id) = Outcome(St, Err(AlreadyFinished))
                /\ \A uci \in UciInputs, promotion \in PlayPromotions :
                       submit_move(St, c, now, id, uci, promotion)
                           = Outcome(St, Err(AlreadyFinished))

FinishedStays ==
    \A id \in DOMAIN active_games :
        /\ id \in DOMAIN active_games'
        /\ StatusRank(active_games'[id].status) >= StatusRank(active_games[id].status)
        /\ active_games[id].status = Finished => active_games'[id] = active_games[id]

(* C2: a game's status never goes back, and once it is Finished every join *)
(* on it fails with not-joinable, every submitMove and resign on it fails  *)
(* with already-finished whoever calls, and its stored record is the same  *)
(* in every later state.                                                   *)
C2_FinishedAbsorbing == []FinishedRejects /\ [][FinishedStays]_vars

(* A finished game has just turned an operation down.                      *)
C2_Witness ==
    /\ response = Response_err(AlreadyFinished)
    /\ \E id \in DOMAIN active_games :
           active_games[id].status = Finished /\ Len(active_games[id].moves) > 0

FailureMessages ==
    {NotYourTurn, AlreadyFinished, MissingOpponent, NotParticipant, LobbyLimitReached,
     InvalidMove(<<"move is illegal in current position">>)}
    \cup {GameNotFound(id) : id \in CapIds} \cup {NotJoinable(id) : id \in CapIds}

FailureChangesNothing ==
    response'.success = FALSE =>
        /\ response'.message \in FailureMessages
        /\ response'.game = None
        /\ active_games' = active_games
        /\ leaderboard' = leaderboard
        /\ next_game_id' = next_game_id

(* C3: an operation that ends in one of the eight user-facing failures     *)
(* leaves every game record, every player record and the next-game-id      *)
(* counter as they were, and answers success = false without a game.       *)
C3_FailuresChangeNothing == [][FailureChangesNothing]_vars

(* A create was turned down at the ceiling.                                *)
C3_Witness ==
    /\ response = Response_err(LobbyLimitReached)
    /\ next_game_id = MAX_OPEN_GAMES_PER_CHAIN + 1

SeatOf(game, c) ==
    IF c = game.white THEN Some(White)
    ELSE IF game.black = Some(c) THEN Some(Black)
    ELSE None

ResignedAs(game, seat, done) ==
    IF seat = None THEN done = Outcome(St, Err(NotParticipant))
    ELSE /\ done.result.ok
         /\ done.result.value.success
         /\ done.result.value.game = Some(to_summary(done.state.active_games[game.game_id]))
         /\ done.state.active_games[game.game_id].status = Finished
         /\ done.state.active_games[game.game_id].winner = Some(other(seat[1]))
         /\ done.state.active_games[game.game_id].board_fen = game.board_fen
         /\ done.state.active_games[game.game_id].turn = game.turn
         /\ done.state.active_games[game.game_id].moves = game.moves

(* C4: on a game that is not Finished, resign by either seat succeeds and  *)
(* finishes the game with the opposite seat as winner, whatever the turn   *)
(* and the position, leaving position, turn and history as they were; a    *)
(* caller who holds no seat gets not-participant.                          *)
C4_ResignOtherWins ==
    \A id \in DOMAIN active_games :
        active_games[id].status # Finished =>
            \A c \in AnyCaller :
                ResignedAs(active_games[id], SeatOf(active_games[id], c),
                           resign(St, c, now, id))

(* White resigned on the move, one move short of mating.                   *)
C4_Witness ==
    /\ response.success
    /\ response.message = <<"Resigned successfully">>
    /\ \E id \in DOMAIN active_games :
           /\ active_games[id].status = Finished
           /\ active_games[id].winner = Some(Black)
           /\ active_games[id].turn = White
           /\ Len(active_games[id].moves) = Len(MateLine)

TwoHumanSeats(game) == ~game.ai_black /\ game.black # None

RecordOf(board, c) ==
    IF c \in DOMAIN board THEN board[c]
    ELSE [chain_id |-> c, wins |-> 0, losses |-> 0, draws |-> 0,
          games_played |-> 0, rating |-> 0]

Booked(stats, rating, wins, losses, draws) ==
    [chain_id |-> stats.chain_id, wins |-> stats.wins + wins,
     losses |-> stats.losses + losses, draws |-> stats.draws + draws,
     games_played |-> stats.games_played + 1, rating |-> stats.rating + rating]

(* The step played one move on the game and left the position `kind`.      *)
MoveLeft(game, after, kind) ==
    /\ TwoHumanSeats(game)
    /\ Len(after.moves) = Len(game.moves) + 1
    /\ status(Board_from_str(after.board_fen)) = kind

MateBooked(after, mover, winner, loser) ==
    /\ after.status = Finished
    /\ after.winner = Some(mover)
    /\ DOMAIN leaderboard' = DOMAIN leaderboard \cup {winner, loser}
    /\ \A c \in DOMAIN leaderboard' :
           leaderboard'[c] =
               IF c = winner THEN Booked(RecordOf(leaderboard, c), 10, 1, 0, 0)
               ELSE IF c = loser THEN Booked(RecordOf(leaderboard, c), 0 - 5, 0, 1, 0)
               ELSE leaderboard[c]

MateStep ==
    \A id \in DOMAIN active_games :
        MoveLeft(active_games[id], active_games'[id], "Checkmate") =>
            MateBooked(active_games'[id], active_games[id].turn,
                       player_chain(active_games[id], active_games[id].turn)[1],
                       player_chain(active_games[id], other(active_games[id].turn))[1])

(* C5: in a game of two human seats, an accepted move that checkmates the  *)
(* opponent finishes the game with the mover as winner and changes exactly *)
(* two player records: the winner's by rating +10, wins +1, games_played   *)
(* +1 and the loser's by rating -5, losses +1, games_played +1.            *)
C5_CheckmateBooked == [][MateStep]_vars

(* Black has just mated with the queen on h4.                              *)
C5_Witness ==
    /\ response.success
    /\ response.message = <<"Move accepted">>
    /\ \E id \in DOMAIN active_games :
           /\ TwoHumanSeats(active_games[id])
           /\ active_games[id].status = Finished
           /\ active_games[id].winner = Some(Black)
           /\ Len(active_games[id].moves) = 4
           /\ active_games[id].moves[4].uci = U("d", "8", "h", "4")
           /\ leaderboard[active_games[id].black[1]].rating = 10
           /\ leaderboard[active_games[id].white].rating = 0 - 5

DrawBooked(after, white, black) ==
    /\ after.status = Finished
    /\ after.winner = None
    /\ DOMAIN leaderboard' = DOMAIN leaderboard \cup {white, black}
    /\ \A c \in DOMAIN leaderboard' :
           leaderboard'[c] =
               IF c \in {white, black} THEN Booked(RecordOf(leaderboard, c), 1, 0, 0, 1)
               ELSE leaderboard[c]

StalemateStep ==
    \A id \in DOMAIN active_games :
        MoveLeft(active_games[id], active_games'[id], "Stalemate") =>
            DrawBooked(active_games'[id], active_games[id].white, active_games[id].black[1])

(* C6: in a game of two human seats, an accepted move that stalemates      *)
(* finishes the game without a winner and adds rating +1, draws +1 and     *)
(* games_played +1 to the record of each of the two participants, and      *)
(* changes no other player record.                                         *)
C6_StalemateBooked == [][StalemateStep]_vars

(* White has just stalemated with the queen on e6.                         *)
C6_Witness ==
    /\ response.success
    /\ response.message = <<"Move accepted">>
    /\ \E id \in DOMAIN active_games :
           /\ TwoHumanSeats(active_games[id])
           /\ active_games[id].status = Finished
           /\ active_games[id].winner = None
           /\ Len(active_games[id].moves) = Len(StalemateLine) + 1
           /\ leaderboard[active_games[id].white].draws = 1
           /\ leaderboard[active_games[id].black[1]].draws = 1

(* The answer to a submitMove by the seat to move: the move is played when *)
(* the text parses to a legal move of the stored position, else refused.   *)
AnsweredByLegality(game, text, done, parsed) ==
    IF parsed.ok /\ parsed.value \in LegalMoveSet(Board_from_str(game.board_fen))
    THEN /\ done.result.ok
         /\ done.result.value.success
         /\ Len(done.state.active_games[game.game_id].moves) > Len(game.moves)
         /\ done.state.active_games[game.game_id].moves[Len(game.moves) + 1].uci = text
         /\ done.state.active_games[game.game_id].moves[Len(game.moves) + 1].played_by
                = game.turn
    ELSE done = Outcome(St, Err(InvalidMove(<<"move is illegal in current position">>)))

OpenGamesOf(c) ==
    {id \in DOMAIN active_games :
        active_games[id].white = c /\ active_games[id].status \in {Lobby, Active}}

CreateAnswered(c, open, done) ==
    IF open < 64
    THEN /\ done.result.ok
         /\ done.result.value.success
         /\ done.state.next_game_id = next_game_id + 1
         /\ DOMAIN done.state.active_games = DOMAIN active_games \cup {next_game_id}
         /\ done.state.active_games[next_game_id].white = c
         /\ done.state.active_games[next_game_id].status # Finished
    ELSE done = Outcome(St, Err(LobbyLimitReached))

(* C8: a create by identity c succeeds exactly when fewer than 64 stored   *)
(* games have c in the first seat and a status other than Finished, and    *)
(* fails with lobby-limit-reached otherwise; so no identity ever holds the *)
(* first seat of more than 64 games that are not Finished.                 *)
C8_CreateIffBelowCap ==
    \A c \in CapChains :
        /\ Cardinality(OpenGamesOf(c)) <= 64
        /\ \A play_vs_ai \in BOOLEAN :
               CreateAnswered(c, Cardinality(OpenGamesOf(c)),
                              create_game(St, c, now, None, play_vs_ai))

(* A create succeeded that brought its creator to the ceiling with one of  *)
(* the creator's games finished: 65 games stored, 64 of them open.         *)
C8_Witness ==
    /\ response.success
    /\ response.message = <<"Game lobby created">>
    /\ \E c \in CapChains :
           /\ Cardinality(OpenGamesOf(c)) = 64
           /\ Cardinality({id \in DOMAIN active_games : active_games[id].white = c}) = 65

ValueOn(piece) ==
    CASE piece \in {"P", "p"} -> 1
      [] piece \in {"N", "n", "B", "b"} -> 3
      [] piece \in {"R", "r"} -> 5
      [] piece \in {"Q", "q"} -> 9
      [] OTHER -> 0

CenterBonus(sq) ==
    IF sq \in {27, 28, 35, 36} THEN 2
    ELSE IF (sq % 8) \in 2 .. 5 /\ (sq \div 8) \in 2 .. 5 THEN 1
    ELSE 0

ScoreOf(pos, m) ==
    ValueOn(pos.board[m.to]) + (IF m.promo # NoPromotion THEN 5 ELSE 0) + CenterBonus(m.to)

(* i is the place of the first move of `moves` with the highest score.     *)
FirstBest(pos, moves, i) ==
    /\ \A j \in 1 .. Len(moves) : ScoreOf(pos, moves[j]) <= ScoreOf(pos, moves[i])
    /\ \A j \in 1 .. i - 1 : ScoreOf(pos, moves[j]) < ScoreOf(pos, moves[i])

ChosenAsScored(pos, moves, picked) ==
    IF Len(moves) = 0 THEN picked = None
    ELSE /\ picked # None
         /\ parse_uci_move(picked[1]).ok
         /\ parse_uci_move(picked[1]).value \in LegalMoveSet(pos)
         /\ \E i \in 1 .. Len(moves) :
                FirstBest(pos, moves, i) /\ picked[1] = move_to_uci_string(moves[i])

(* C9: on every stored position chooseMove returns no move exactly when    *)
(* there is no legal move, and otherwise the first legal move, in the      *)
(* order of enumeration, with the highest score, the score being the value *)
(* of the piece on the destination (pawn 1, knight 3, bishop 3, rook 5,    *)
(* queen 9, else 0), plus 5 for a promotion, plus the center bonus of the  *)
(* destination (2 on the four inner squares, 1 on the ring around them).   *)
C9_FirstBestMove ==
    \A id \in DOMAIN active_games :
        ChosenAsScored(Board_from_str(active_games[id].board_fen),
                       new_legal(Board_from_str(active_games[id].board_fen)),
                       pick_ai_move(active_games[id].board_fen))

(* The automated seat answered 1.f3 with d7d5, ahead of e7e5 which scores  *)
(* the same.                                                               *)
C9_Witness ==
    \E id \in DOMAIN active_games :
        /\ active_games[id].ai_black
        /\ Len(active_games[id].moves) = 2
        /\ active_games[id].moves[1].uci = U("f", "2", "f", "3")
        /\ active_games[id].moves[2].uci = U("d", "7", "d", "5")
        /\ active_games[id].moves[2].played_by = Black

(* C10: from the initial position the move "e2e4" leaves Black to move and *)
(* is recorded under the notation label "e4".                              *)
C10_E2E4LabelledE4 ==
    \A id \in DOMAIN active_games :
        (Len(active_games[id].moves) = 1
         /\ active_games[id].moves[1].uci = U("e", "2", "e", "4")) =>
            /\ Board_from_str(active_games[id].board_fen).stm = "b"
            /\ active_games[id].moves[1].san = Some(<<"e", "4">>)

JoinAnswered(id, c, done) ==
    IF id \notin DOMAIN active_games THEN done = Outcome(St, Err(GameNotFound(id)))
    ELSE IF /\ active_games[id].status = Lobby
            /\ active_games[id].black = None
            /\ ~active_games[id].ai_black
            /\ c # active_games[id].white
    THEN /\ done.result.ok
         /\ done.result.value.success
         /\ done.state.active_games[id].black = Some(c)
         /\ done.state.active_games[id].status = Active
         /\ done.state.active_games[id].board_fen = active_games[id].board_fen
         /\ done.state.active_games[id].turn = active_games[id].turn
         /\ done.state.active_games[id].turn = White
         /\ done.state.active_games[id].moves = active_games[id].moves
         /\ done.state.active_games[id].winner = active_games[id].winner
    ELSE done = Outcome(St, Err(NotJoinable(id)))

(* C11: a join succeeds exactly when the game exists, is a Lobby with the  *)
(* second seat unfilled, is not automated and the joiner is not its        *)
(* creator; it then seats the joiner second and makes the game Active with *)
(* position, turn (White), history and winner as they were; any other join *)
(* on a stored game fails with not-joinable, on an unknown id with         *)
(* not-found.                                                              *)
C11_JoinIffOpenLobby ==
    \A id \in GameIdInputs, c \in AnyCaller :
        JoinAnswered(id, c, join_game(St, c, now, id))

(* The second seat of a human game was just taken.                         *)
C11_Witness ==
    /\ response.success
    /\ response.message = <<"Joined game successfully">>
    /\ \E id \in DOMAIN active_games :
           /\ response.game = Some(to_summary(active_games[id]))
           /\ active_games[id].status = Active
           /\ active_games[id].black # None
           /\ active_games[id].black # Some(active_games[id].white)

WinnerMatchesEnding(game) ==
    game.winner # None <=>
        (game.status = Finished /\ status(Board_from_str(game.board_fen)) # "Stalemate")

(* C12: a game has a winner only if it is Finished: a Lobby or Active game *)
(* has none, a game finished by stalemate has none, and a game finished by *)
(* checkmate or by resignation has one.                                    *)
C12_WinnerOnlyWhenDecided ==
    \A id \in DOMAIN active_games : WinnerMatchesEnding(active_games[id])

(* A resigned game with its winner beside a stalemated game without one.   *)
C12_Witness ==
    /\ \E id \in DOMAIN active_games :
           /\ active_games[id].status = Finished
           /\ active_games[id].winner = None
           /\ status(Board_from_str(active_games[id].board_fen)) = "Stalemate"
    /\ \E id \in DOMAIN active_games :
           /\ active_games[id].status = Finished
           /\ active_games[id].winner # None
           /\ Len(active_games[id].moves) = 0

SeatsMatchStatus(game) ==
    /\ game.status = Lobby => (game.black = None /\ ~game.ai_black)
    /\ game.status = Active => ((game.black # None) # game.ai_black)
    /\ game.ai_black => game.black = None

(* C13: a Lobby game has no second-seat identity and is not automated; an  *)
(* Active game has exactly one of a second-seat identity and the automated *)
(* flag; an automated game has no second-seat identity in any status.      *)
C13_SeatsMatchStatus ==
    \A id \in DOMAIN active_games : SeatsMatchStatus(active_games[id])

(* An Active game of two humans beside an Active automated game.           *)
C13_Witness ==
    /\ \E id \in DOMAIN active_games :
           /\ active_games[id].status = Active
           /\ active_games[id].black # None
           /\ ~active_games[id].ai_black
    /\ \E id \in DOMAIN active_games :
           /\ active_games[id].status = Active
           /\ active_games[id].black = None
           /\ active_games[id].ai_black

FinishedGamesOf(p) ==
    {id \in DOMAIN active_games :
        /\ active_games[id].status = Finished
        /\ (active_games[id].white = p \/ active_games[id].black = Some(p))}

(* C14: the leaderboard holds a record for an identity exactly when the    *)
(* identity sits in a Finished game, and its games_played is the number of *)
(* Finished games it sits in; the automated seat has no record, so only    *)
(* identities hold records.                                                *)
C14_OneBookingPerFinishedGame ==
    /\ DOMAIN leaderboard \subseteq AnyCaller
    /\ \A p \in AnyCaller :
           /\ p \in DOMAIN leaderboard <=> FinishedGamesOf(p) # {}
           /\ p \in DOMAIN leaderboard =>
                  /\ leaderboard[p].chain_id = p
                  /\ leaderboard[p].games_played = Cardinality(FinishedGamesOf(p))

(* A player with two finished games, the first of them an automated game   *)
(* that left no second record.                                             *)
C14_Witness ==
    \E p \in DOMAIN leaderboard :
        /\ leaderboard[p].games_played = 2
        /\ \E id \in FinishedGamesOf(p) : active_games[id].ai_black
        /\ \E id \in FinishedGamesOf(p) : active_games[id].black # None
        /\ Cardinality(DOMAIN leaderboard) = 2

PlayedIsSum ==
    \A p \in DOMAIN leaderboard :
        leaderboard[p].games_played
            = leaderboard[p].wins + leaderboard[p].losses + leaderboard[p].draws

CountersGrow ==
    \A p \in DOMAIN leaderboard :
        /\ p \in DOMAIN leaderboard'
        /\ leaderboard'[p].wins >= leaderboard[p].wins
        /\ leaderboard'[p].losses >= leaderboard[p].losses
        /\ leaderboard'[p].draws >= leaderboard[p].draws
        /\ leaderboard'[p].games_played >= leaderboard[p].games_played

(* C15: every player record has games_played = wins + losses + draws, and  *)
(* no operation lowers one of the four counters of a record or removes a   *)
(* record from the leaderboard.                                            *)
C15_CountersSumAndGrow == []PlayedIsSum /\ [][CountersGrow]_vars

(* One record holds a loss and a win, another a loss only.                 *)
C15_Witness ==
    /\ \E p \in DOMAIN leaderboard :
           /\ leaderboard[p].wins = 1
           /\ leaderboard[p].losses = 1
           /\ leaderboard[p].games_played = 2
           /\ leaderboard[p].rating = 5
    /\ \E p \in DOMAIN leaderboard :
           /\ leaderboard[p].wins = 0
           /\ leaderboard[p].losses = 1
           /\ leaderboard[p].rating = 0 - 5

IdsBelowCounter ==
    \A id \in DOMAIN active_games :
        /\ active_games[id].game_id = id
        /\ id >= 1
        /\ id < next_game_id

Created == response'.success /\ response'.message = <<"Game lobby created">>

CreateTakesNextId ==
    /\ next_game_id' = (IF Created THEN next_game_id + 1 ELSE next_game_id)
    /\ Created =>
           /\ next_game_id \notin DOMAIN active_games
           /\ DOMAIN active_games' = DOMAIN active_games \cup {next_game_id}
           /\ active_games'[next_game_id].game_id = next_game_id
           /\ response'.game = Some(to_summary(active_games'[next_game_id]))
           /\ \A id \in DOMAIN active_games : active_games'[id] = active_games[id]
    /\ ~Created => DOMAIN active_games' = DOMAIN active_games

(* C16: a successful create stores the new game under the current value of *)
(* the next-game-id counter and advances the counter by one, never writing *)
(* over a stored game; no other operation, and no rejected create, moves   *)
(* the counter; so every stored game's id is its key and is smaller than   *)
(* the counter.                                                            *)
C16_IdsFromCounter == []IdsBelowCounter /\ [][CreateTakesNextId]_vars

(* Two games were created past the 63 of the start, the last just now.     *)
C16_Witness ==
    /\ response.success
    /\ response.message = <<"Game lobby created">>
    /\ next_game_id = MAX_OPEN_GAMES_PER_CHAIN + CapExtra
    /\ DOMAIN active_games = 1 .. MAX_OPEN_GAMES_PER_CHAIN + CapExtra - 1
    /\ response.game[1].game_id = MAX_OPEN_GAMES_PER_CHAIN + CapExtra - 1

(* The position before the k-th record of a history was played, k from 1:  *)
(* the records before it replayed from the initial position.               *)
RECURSIVE PositionBefore(_, _)
PositionBefore(moves, k) ==
    IF k = 1 THEN Board_from_str(DEFAULT_FEN)
    ELSE make_move_new(PositionBefore(moves, k - 1), parse_uci_move(moves[k - 1].uci).value)

LetterOf(piece) ==
    CASE piece \in {"K", "k"} -> <<"K">>
      [] piece \in {"Q", "q"} -> <<"Q">>
      [] piece \in {"R", "r"} -> <<"R">>
      [] piece \in {"B", "b"} -> <<"B">>
      [] piece \in {"N", "n"} -> <<"N">>
      [] OTHER -> <<>>

SuffixOf(promo) ==
    CASE promo = "Queen" -> <<"=", "Q">>
      [] promo = "Rook" -> <<"=", "R">>
      [] promo = "Bishop" -> <<"=", "B">>
      [] promo = "Knight" -> <<"=", "N">>
      [] OTHER -> <<>>

LabelOf(pos, m) ==
    LetterOf(pos.board[m.from])
    \o (IF pos.board[m.to] # Empty THEN <<"x">> ELSE <<>>)
    \o Square_to_string(m.to)
    \o SuffixOf(m.promo)

(* C17: the notation label of every accepted move is the piece letter,     *)
(* none for a pawn, then the capture marker x when the destination was     *)
(* occupied, for pawn captures too, then the destination square, then the  *)
(* promotion suffix when the move promotes, for capturing promotions too.  *)
C17_LabelLetterMarkSquare ==
    \A id \in DOMAIN active_games :
        \A k \in 1 .. Len(active_games[id].moves) :
            active_games[id].moves[k].san
                = Some(LabelOf(PositionBefore(active_games[id].moves, k),
                               parse_uci_move(active_games[id].moves[k].uci).value))

CreationFieldsKept ==
    \A id \in DOMAIN active_games :
        /\ id \in DOMAIN active_games'
        /\ active_games'[id].game_id = active_games[id].game_id
        /\ active_games'[id].white = active_games[id].white
        /\ active_games'[id].ai_black = active_games[id].ai_black
        /\ active_games'[id].metadata = active_games[id].metadata
        /\ active_games'[id].created_at = active_games[id].created_at

(* A stored record that a step changes is the one the operation answered   *)
(* with, so a step changes at most one stored record.                      *)
OnlyAddressedChanges ==
    \A id \in DOMAIN active_games :
        active_games'[id] # active_games[id] =>
            /\ response'.success
            /\ response'.message # <<"Game lobby created">>
            /\ response'.game = Some(to_summary(active_games'[id]))

(* C18: no operation changes the id, the first-seat identity, the ai_black *)
(* flag, the metadata or created_at of a stored game, and a join,          *)
(* submitMove or resign changes at most the one game record it addresses.  *)
C18_CreationFieldsFrozen == [][CreationFieldsKept /\ OnlyAddressedChanges]_vars

(* A game created at time 0 with metadata was changed at time 1, beside a  *)
(* game that has not been touched since its creation.                      *)
C18_Witness ==
    /\ \E id \in DOMAIN active_games :
           /\ active_games[id].created_at = 0
           /\ active_games[id].updated_at = 1
           /\ active_games[id].metadata = Some(<<"m">>)
           /\ Len(active_games[id].moves) > 0
    /\ \E id \in DOMAIN active_games :
           /\ active_games[id].created_at = active_games[id].updated_at
           /\ active_games[id].status = Lobby

AutomatedNeverToMove ==
    \A id \in DOMAIN active_games :
        (active_games[id].ai_black /\ active_games[id].status = Active) =>
            active_games[id].turn = White

(* What an accepted submitMove on `game` left behind in `after`.           *)
Replied(game, after) ==
    IF game.ai_black
    THEN \/ /\ after.status = Finished
            /\ Len(after.moves) - Len(game.moves) \in {1, 2}
         \/ /\ after.status = Active
            /\ after.turn = White
            /\ Len(after.moves) = Len(game.moves) + 2
            /\ after.moves[Len(game.moves) + 1].played_by = White
            /\ after.moves[Len(game.moves) + 2].played_by = Black
    ELSE Len(after.moves) = Len(game.moves) + 1

ReplyWithinTheMove ==
    (response'.success /\ response'.message = <<"Move accepted">>) =>
        /\ response'.game # None
        /\ response'.game[1].game_id \in DOMAIN active_games
        /\ Replied(active_games[response'.game[1].game_id],
                   active_games'[response'.game[1].game_id])

(* C19: after every accepted submitMove on an automated game the game is   *)
(* Finished, or Active with White to move and two more records, the human  *)
(* move and then the reply played by Black; so an Active automated game    *)
(* always has White to move.  On a two-human game an accepted submitMove   *)
(* adds exactly one record.                                                *)
C19_ReplyNeverPending == []AutomatedNeverToMove /\ [][ReplyWithinTheMove]_vars

(* White has just mated the automated seat, which had answered each of the *)
(* three moves before.                                                     *)
C19_Witness ==
    /\ response.success
    /\ response.message = <<"Move accepted">>
    /\ response.game[1].ai_black
    /\ response.game[1].status = Finished
    /\ response.game[1].winner = Some(White)
    /\ Len(response.game[1].moves) = 7
    /\ \A k \in {2, 4, 6} : response.game[1].moves[k].played_by = Black

GuardTexts == UciInputs \cup {U("e", "9", "e", "4")}

(* The first guard of submitMove that fails, or none.                      *)
FirstFailure(id, c, text) ==
    IF id \notin DOMAIN active_games THEN Some(GameNotFound(id))
    ELSE IF active_games[id].status = Finished THEN Some(AlreadyFinished)
    ELSE IF active_games[id].status = Lobby THEN Some(MissingOpponent)
    ELSE IF SeatOf(active_games[id], c) = None THEN Some(NotParticipant)
    ELSE IF SeatOf(active_games[id], c) # Some(active_games[id].turn) THEN Some(NotYourTurn)
    ELSE IF ~parse_uci_move(text).ok THEN Some(InvalidMove(<<"move is illegal in current position">>))
    ELSE IF parse_uci_move(text).value
                \notin LegalMoveSet(Board_from_str(active_games[id].board_fen))
         THEN Some(InvalidMove(<<"move is illegal in current position">>))
    ELSE None

AnsweredInOrder(failure, done) ==
    IF failure = None THEN done.result.ok /\ done.result.value.success
    ELSE done = Outcome(St, Err(failure[1]))

(* C20: submitMove reports the first failing guard in the order: unknown   *)
(* id (not-found), status Finished (already-finished), status Lobby        *)
(* (missing-opponent, whoever calls), caller in neither seat               *)
(* (not-participant), caller's seat not the turn (wrong-turn, whatever the *)
(* move text), and only then the move itself (invalid-move).               *)
C20_GuardsInOrder ==
    \A id \in GameIdInputs, c \in AnyCaller, text \in GuardTexts :
        AnsweredInOrder(FirstFailure(id, c, HintedUci(text, None)),
                        submit_move(St, c, now, id, text, None))

(* A seated player out of turn was told so, while another game is still a  *)
(* Lobby.                                                                  *)
C20_Witness ==
    /\ response = Response_err(NotYourTurn)
    /\ \E id \in DOMAIN active_games :
           /\ active_games[id].status = Active
           /\ active_games[id].black # None
           /\ Len(active_games[id].moves) = 1
    /\ \E id \in DOMAIN active_games : active_games[id].status = Lobby

(* The creator's resignation of a game without a second-seat identity.     *)
CreatorResigned(game, done) ==
    /\ done.result.ok
    /\ done.result.value.success
    /\ done.state.active_games[game.game_id].status = Finished
    /\ done.state.active_games[game.game_id].winner = Some(Black)
    /\ done.state.active_games[game.game_id].black = None
    /\ DOMAIN done.state.leaderboard = DOMAIN leaderboard \cup {game.white}
    /\ \A p \in DOMAIN done.state.leaderboard :
           done.state.leaderboard[p] =
               IF p = game.white THEN Booked(RecordOf(leaderboard, p), 0 - 5, 0, 1, 0)
               ELSE leaderboard[p]

(* C21: the creator's resignation of a game still in Lobby, or of an       *)
(* automated game, is accepted: the game becomes Finished with winner      *)
(* Black although no identity holds the second seat, and exactly one       *)
(* player record changes, the creator's, by rating -5, losses +1,          *)
(* games_played +1.                                                        *)
C21_ResignToAbsentWinner ==
    \A id \in DOMAIN active_games :
        (active_games[id].status # Finished /\ active_games[id].black = None) =>
            CreatorResigned(active_games[id],
                            resign(St, active_games[id].white, now, id))

(* A game went from Lobby to Finished by its creator's resignation, the    *)
(* creator having lost a game before.                                      *)
C21_Witness ==
    /\ response.success
    /\ response.message = <<"Resigned successfully">>
    /\ response.game[1].black = None
    /\ ~response.game[1].ai_black
    /\ response.game[1].status = Finished
    /\ response.game[1].winner = Some(Black)
    /\ leaderboard[response.game[1].white].losses = 2
    /\ leaderboard[response.game[1].white].rating = 0 - 10
    /\ Cardinality(DOMAIN leaderboard) = 1

RatingOf(stats) == 10 * stats.wins - 5 * stats.losses + stats.draws

RatingFromCounters ==
    \A p \in DOMAIN leaderboard :
        /\ leaderboard[p].chain_id = p
        /\ leaderboard[p].rating = RatingOf(leaderboard[p])

NewRecordsFromZero ==
    \A p \in DOMAIN leaderboard' \ DOMAIN leaderboard :
        /\ leaderboard'[p].games_played = 1
        /\ leaderboard'[p].wins + leaderboard'[p].losses + leaderboard'[p].draws = 1
        /\ leaderboard'[p].rating \in {10, 0 - 5, 1}

(* C22: every player record has rating = 10 * wins - 5 * losses + draws,   *)
(* a record entering the leaderboard having started with all counters and  *)
(* the rating at zero and holding exactly its first result.                *)
C22_RatingFromCounters == []RatingFromCounters /\ [][NewRecordsFromZero]_vars

(* A drawn game has been booked for both seats beside a resigned one.      *)
C22_Witness ==
    /\ \E p \in DOMAIN leaderboard :
           /\ leaderboard[p].draws = 1
           /\ leaderboard[p].games_played = 1
           /\ leaderboard[p].rating = 1
    /\ \E p \in DOMAIN leaderboard :
           /\ leaderboard[p].losses = 1
           /\ leaderboard[p].draws = 0
           /\ leaderboard[p].rating = 0 - 5
    /\ \E id \in DOMAIN active_games :
           /\ active_games[id].status = Finished
           /\ active_games[id].winner = None

SeatsDiffer(game) == game.black # None => game.black[1] # game.white

(* The seat tests of submit_move and resign cannot both hold for `c`.      *)
AtMostOneSeat(game) ==
    \A c \in AnyCaller : ~(c = game.white /\ game.black = Some(c))

(* The records that differ between the leaderboard and `board`.            *)
RecordsChanged(board) ==
    {p \in DOMAIN board : p \notin DOMAIN leaderboard \/ board[p] # leaderboard[p]}

ResultBooksBothSeats(game, result) ==
    /\ RecordsChanged(apply_result(St, game, result, now).state.leaderboard)
           = {game.white, game.black[1]}
    /\ Cardinality(RecordsChanged(apply_result(St, game, result, now).state.leaderboard)) = 2

(* C23: in every game the second-seat identity, when present, differs      *)
(* from the first-seat identity; so no caller holds both seats, and a      *)
(* decisive or drawn result of a two-human game changes exactly the two    *)
(* distinct records of its seats.                                          *)
C23_SeatsDistinct ==
    \A id \in DOMAIN active_games :
        /\ SeatsDiffer(active_games[id])
        /\ AtMostOneSeat(active_games[id])
        /\ (TwoHumanSeats(active_games[id]) /\ active_games[id].status = Active) =>
               \A result \in {MatchWinner(White), MatchWinner(Black), MatchDraw} :
                   ResultBooksBothSeats(active_games[id], result)

(* Two two-human games are finished, each seat having won one and lost     *)
(* one of them.                                                            *)
C23_Witness ==
    /\ Cardinality(DOMAIN active_games) = 2
    /\ \A id \in DOMAIN active_games :
           /\ active_games[id].status = Finished
           /\ TwoHumanSeats(active_games[id])
           /\ active_games[id].black[1] # active_games[id].white
    /\ Cardinality(DOMAIN leaderboard) = 2
    /\ \A p \in DOMAIN leaderboard :
           leaderboard[p].wins = 1 /\ leaderboard[p].losses = 1

(* The seat to move in the position stored in `fen`.                       *)
SideToMove(fen) == IF Board_from_str(fen).stm = "w" THEN White ELSE Black

TurnMatchesPosition(game) ==
    /\ game.turn = SideToMove(game.board_fen)
    /\ game.turn = White <=> Len(game.moves) % 2 = 0

(* C24: in every game the stored turn is the side to move of the stored    *)
(* position, and it is White exactly when the move history has an even     *)
(* number of records; finished games, ended by a terminal move or by a     *)
(* resignation, included.                                                  *)
C24_TurnMatchesPosition ==
    \A id \in DOMAIN active_games : TurnMatchesPosition(active_games[id])

(* One game ended by the move that mated the automated seat, Black to move *)
(* after an odd number of records; another by a resignation before any     *)
(* move, White to move.                                                    *)
C24_Witness ==
    /\ \E id \in DOMAIN active_games :
           /\ active_games[id].status = Finished
           /\ active_games[id].ai_black
           /\ status(Board_from_str(active_games[id].board_fen)) = "Checkmate"
           /\ active_games[id].turn = Black
           /\ Len(active_games[id].moves) % 2 = 1
    /\ \E id \in DOMAIN active_games :
           /\ active_games[id].status = Finished
           /\ active_games[id].winner = Some(Black)
           /\ active_games[id].turn = White
           /\ active_games[id].moves = <<>>
====
